---------------------------- MODULE Spec2Model ----------------------------
(***************************************************************************)
(* Multi-modal PDF retrieval pipeline: ingestion identity / idempotency    *)
(* (src/clients/chroma_client.py, src/utils/helpers.py,                    *)
(* src/llm_poc/run_pipeline.py) and cross-collection retrieval fusion      *)
(* (src/retriever/rag_retriever.py, src/retriever/retriever_collection.py).*)
(*                                                                         *)
(* Python strings that are only compared or concatenated are TLA+ strings; *)
(* strings that are stripped, measured or sliced (page_content, preview    *)
(* text, captions) are sequences of one-character strings.  A metadata     *)
(* value is a record [t |-> <python type name>, v |-> <its str()>].        *)
(***************************************************************************)
EXTENDS Integers, Sequences, FiniteSets, TLC

VARIABLES
    store,      \* collection name -> set of records [id, text, meta] (Chroma persist dir)
    exists,     \* collection name -> the collection has been created in the persist dir
    pc,         \* per ingest process: position in run_pipeline.main
    doc,        \* per ingest process: the document (file) given with --pdf
    force,      \* per ingest process: the --force flag
    entry,      \* per ingest process: the script run (run_pipeline or llm_poc/__main__)
    argv,       \* per ingest process: the inputs of the run (MODEL_API_KEY, --pdf / $PDF_PATH)
    already,    \* per ingest process: value of `already` (run_pipeline.py:60)
    result,     \* per ingest process: dict returned by ingest_pdf_multimodal
    ids,        \* per ingest process: the id lists built by the three indexers
    snap,       \* per document: records and id lists left by its first finished run
    runs,       \* per document: number of scripts and direct indexer calls started on it
    gate,       \* the helper call in flight (is_already_indexed or an indexer), or NoCall
    query       \* the RAGRetriever call in flight, or NoCall

vars == <<store, exists, pc, doc, force, entry, argv, already, result, ids, snap, runs, gate, query>>

----------------------------------------------------------------------------
(* Bounds of the model *)

MaxRuns == 3        \* ingest scripts started, over all documents
MaxQueryRuns == 2   \* ingest scripts started in the specification of queries
MaxK == 2           \* largest k_each a query passes
MaxTopN == 3        \* largest top_n a query passes
MaxChars == 3       \* largest max_chars_per_chunk a caller passes

Procs == {1, 2}                     \* ingest processes (run_pipeline invocations)
SeqProcs == {1}                     \* the single process of the sequential specification
Uuids == {"3f9a1c", "b07e42"}       \* values uuid.uuid4().hex[:6] may take
OneUuid == {"3f9a1c"}               \* the value it takes where one is enough
NoCall == [op |-> "none"]

----------------------------------------------------------------------------
(* Generic helpers *)

RECURSIVE Join(_)
\* "".join(seq) for a sequence of strings
Join(s) == IF s = <<>> THEN "" ELSE Head(s) \o Join(Tail(s))

Range(s) == {s[i] : i \in DOMAIN s}

\* f"{n:04d}" and f"{n:02d}": zero padding to a minimum width
Pad(n, width) ==
    LET str == ToString(n)
        RECURSIVE Zeros(_)
        Zeros(k) == IF k <= 0 THEN "" ELSE "0" \o Zeros(k - 1)
    IN  Zeros(width - Len(str)) \o str

----------------------------------------------------------------------------
(* Metadata values: python objects by type and str() *)

PyStr(s) == [t |-> "str", v |-> s]
PyInt(n) == [t |-> "int", v |-> ToString(n)]
PyBool(b) == [t |-> "bool", v |-> IF b THEN "True" ELSE "False"]
PyNone == [t |-> "NoneType", v |-> "None"]
PyDict(repr) == [t |-> "dict", v |-> repr]
\* a float held in halves: h stands for h / 2
PyFloat(h) == [t |-> "float", v |-> ToString(h \div 2) \o (IF h % 2 = 1 THEN ".5" ELSE ".0")]

ScalarTypes == {"str", "int", "float", "bool", "NoneType"}

\* bool(x) of a metadata value
Truthy(x) == ~(x.t = "NoneType" \/ (x.t = "str" /\ x.v = "") \/ (x.t = "dict" /\ x.v = "{}"))

\* python `a or b`
PyOr(a, b) == IF Truthy(a) THEN a ELSE b

----------------------------------------------------------------------------
(* Content Hasher *)

Sha256HexLen == 64
Sha1HexLen == 40
DocHashLen == 16
ImageSigLen == 12

Hex == <<"0", "1", "2", "3", "4", "5", "6", "7", "8", "9", "a", "b", "c", "d", "e", "f">>

\* hashlib.sha256(bytes).hexdigest() as a sequence of hex digits; file contents
\* are small integers and the digest is injective on them
Sha256Hex(bytes) == [i \in 1..Sha256HexLen |-> Hex[((bytes + i) % 16) + 1]]

\* hashlib.sha1(bytes).hexdigest() as a sequence of hex digits
Sha1Hex(bytes) == [i \in 1..Sha1HexLen |-> Hex[((3 * bytes + 5 * i) % 16) + 1]]

\* helpers.file_sha256: the full hex digest
file_sha256(bytes) == Join(Sha256Hex(bytes))

\* chroma_client._file_sha256: the digest cut to 16 hex digits
file_sha256_short(bytes) == Join(SubSeq(Sha256Hex(bytes), 1, DocHashLen))

\* chroma_client._sha1_file: sha1 of the image file cut to 12 hex digits
sha1_file(bytes) == Join(SubSeq(Sha1Hex(bytes), 1, ImageSigLen))

----------------------------------------------------------------------------
(* The documents on disk and what the extractors find in them.  Extraction *)
(* internals are outside the core: each file is given by its bytes, its    *)
(* per-page text as split by the text splitter, its tables and its images. *)
(* Bounding boxes are in halves of a PDF point.                            *)

NoBBox == <<>>

Files == [
    a |-> [stem |-> <<"a">>, bytes |-> 1,
           \* one entry per page: the page's text cut into chunks
           pages |-> << << <<" ", "a", "t", "t", "n">>, <<"h", "e", "a", "d", "s", " ">> >>,
                        << <<"s", "o", "f", "t", "m", "a", "x">> >> >>,
           tables |-> << [page |-> 1, bbox |-> <<3, 4, 21, 10>>, preview |-> <<"T", "b", "l", ".">>],
                         [page |-> 2, bbox |-> <<5, 7, 20, 31>>, preview |-> <<"T", "b", "l", ".">>] >>,
           \* full-page render of each page, bytes of the png
           renders |-> <<11, 12>>,
           \* embedded raster images of each page, bytes of each
           embedded |-> << <<>>, <<13>> >>,
           rect |-> <<0, 0, 24, 32>>],
    b |-> [stem |-> <<"b">>, bytes |-> 2,
           pages |-> << << <<"b", "e", "r", "t">> >> >>,
           tables |-> <<>>,
           renders |-> <<21>>,
           \* the same picture embedded twice on the page
           embedded |-> << <<22, 22>> >>,
           rect |-> <<0, 0, 24, 32>>]
]

Docs == DOMAIN Files

\* Path(p).stem, Path(p).name and str(p) of the file of document d
PathStem(d) == Join(Files[d].stem)
NameChars(d) == Files[d].stem \o <<".", "p", "d", "f">>
PathName(d) == Join(NameChars(d))
PdfPath(d) == "pdfs/" \o PathName(d)

COLLECTIONS == <<"pdf_text", "pdf_tables", "pdf_images">>
Collections == Range(COLLECTIONS)

----------------------------------------------------------------------------
(* Character-sequence strings *)

Whitespace == {" ", "\n", "\t"}

RECURSIVE LStrip(_)
LStrip(s) == IF s # <<>> /\ Head(s) \in Whitespace THEN LStrip(Tail(s)) ELSE s

RECURSIVE RStrip(_)
RStrip(s) == IF s # <<>> /\ s[Len(s)] \in Whitespace THEN RStrip(SubSeq(s, 1, Len(s) - 1)) ELSE s

\* str.strip()
Strip(s) == RStrip(LStrip(s))

RECURSIVE Digits(_)
\* str(n) for n >= 0, one character per digit
Digits(n) == IF n < 10 THEN <<Hex[n + 1]>> ELSE Digits(n \div 10) \o <<Hex[(n % 10) + 1]>>

----------------------------------------------------------------------------
(* Extraction collaborators.  u is the value uuid4().hex[:6] takes in one  *)
(* run of the extractors; captioned tells whether the captioner answered.  *)

ARTIFACTS_DIR == "artifacts_pdf"

\* utils/text_loader.load_pdf_text: one Document per page (PyPDFLoader)
load_pdf_text(d) ==
    [i \in DOMAIN Files[d].pages |->
        [chunks |-> Files[d].pages[i],
         metadata |-> [source |-> PyStr(PdfPath(d)), page |-> i - 1,
                       page_label |-> PyStr(ToString(i))]]]

\* number of tables of page `page` among the first n - 1 tables: enumerate() per page
TableIdx(d, n) ==
    Cardinality({j \in 1..(n - 1) : Files[d].tables[j].page = Files[d].tables[n].page})

\* utils/table_extractor.extract_tables
extract_tables(d, u) ==
    [n \in DOMAIN Files[d].tables |->
        LET t == Files[d].tables[n]
            table_id == "tbl-" \o Pad(t.page, 4) \o "-" \o Pad(TableIdx(d, n), 2) \o "-" \o u
            out_base == ARTIFACTS_DIR \o "/tables/" \o PathStem(d) \o "/"
        IN  [table_id |-> table_id,
             pdf_path |-> PdfPath(d),
             page |-> t.page,
             bbox |-> t.bbox,
             csv_path |-> out_base \o table_id \o ".csv",
             json_path |-> out_base \o table_id \o ".json",
             preview_text |-> t.preview]]

Caption == <<"f", "i", "g">>

\* the artifacts extract_images appends for page pg: the full-page render, then
\* the embedded raster images
PageImages(d, pg, u, captioned) ==
    LET out_base == ARTIFACTS_DIR \o "/figures/" \o PathStem(d) \o "/"
        cap == IF captioned THEN Caption ELSE <<>>
        full_id == "fig-p" \o Pad(pg, 4) \o "-full-" \o u
        full == [image_id |-> full_id, pdf_path |-> PdfPath(d), page |-> pg,
                 bbox |-> Files[d].rect, png_path |-> out_base \o full_id \o ".png",
                 png |-> Files[d].renders[pg], caption |-> cap, ocr_text |-> <<>>]
        emb == [k \in DOMAIN Files[d].embedded[pg] |->
                  LET image_id == "fig-p" \o Pad(pg, 4) \o "-img" \o Pad(k - 1, 2) \o "-" \o u
                  IN  [image_id |-> image_id, pdf_path |-> PdfPath(d), page |-> pg,
                       bbox |-> NoBBox, png_path |-> out_base \o image_id \o ".png",
                       png |-> Files[d].embedded[pg][k], caption |-> cap, ocr_text |-> <<>>]]
    IN  <<full>> \o emb

RECURSIVE ImagesFrom(_, _, _, _)
ImagesFrom(d, pg, u, captioned) ==
    IF pg > Len(Files[d].renders) THEN <<>>
    ELSE PageImages(d, pg, u, captioned) \o ImagesFrom(d, pg + 1, u, captioned)

\* utils/image_extractor.extract_images
extract_images(d, u, captioned) == ImagesFrom(d, 1, u, captioned)

\* utils/pdf_orchestrator.ingest_pdf_multimodal with text, tables and images enabled
ingest_pdf_multimodal(d, u, captioned) ==
    [pdf_path |-> PdfPath(d),
     text |-> load_pdf_text(d),
     tables |-> extract_tables(d, u),
     images |-> extract_images(d, u, captioned)]

----------------------------------------------------------------------------
(* Indexer helpers (src/clients/chroma_client.py) *)

\* python round() of h / 2 for h >= 0: halves go to the even neighbour
PyRound(h) ==
    IF h % 2 = 0 THEN h \div 2
    ELSE IF ((h - 1) \div 2) % 2 = 0 THEN (h - 1) \div 2 ELSE (h + 1) \div 2

_bbox_sig(bbox) ==
    IF bbox = NoBBox THEN "none"
    ELSE ToString(PyRound(bbox[1])) \o "_" \o ToString(PyRound(bbox[2])) \o "_"
         \o ToString(PyRound(bbox[3])) \o "_" \o ToString(PyRound(bbox[4]))

\* the four fields only for an artifact that has a bounding box
_bbox_fields_if_any(bbox) ==
    IF bbox = NoBBox THEN [k \in {} |-> PyNone]
    ELSE [bbox_x0 |-> PyFloat(bbox[1]), bbox_y0 |-> PyFloat(bbox[2]),
          bbox_x1 |-> PyFloat(bbox[3]), bbox_y1 |-> PyFloat(bbox[4])]

_bbox_fields(bbox) ==
    IF bbox = NoBBox
    THEN [bbox_x0 |-> PyNone, bbox_y0 |-> PyNone, bbox_x1 |-> PyNone, bbox_y1 |-> PyNone]
    ELSE [bbox_x0 |-> PyFloat(bbox[1]), bbox_y0 |-> PyFloat(bbox[2]),
          bbox_x1 |-> PyFloat(bbox[3]), bbox_y1 |-> PyFloat(bbox[4])]

\* dict.update(): the keys of `more` are added to (or replace those of) `meta`
DictUpdate(meta, more) ==
    [k \in DOMAIN meta \cup DOMAIN more |-> IF k \in DOMAIN more THEN more[k] ELSE meta[k]]

\* metadata handed on as built
_clean_meta_unchanged(meta) == meta

_clean_meta(meta) ==
    [k \in DOMAIN meta |->
        IF meta[k].t \in ScalarTypes THEN meta[k] ELSE PyStr(meta[k].v)]

\* RecursiveCharacterTextSplitter.split_documents: the chunks of every page in page
\* order, each with a copy of its page's metadata
RECURSIVE _split_text_docs(_)
_split_text_docs(docs) ==
    IF docs = <<>> THEN <<>>
    ELSE [i \in DOMAIN Head(docs).chunks |->
             [page_content |-> Head(docs).chunks[i], metadata |-> Head(docs).metadata]]
         \o _split_text_docs(Tail(docs))

\* what an indexer hands to store.add_texts
Batch(idl, texts, metas) == [ids |-> idl, texts |-> texts, metas |-> metas, raised |-> FALSE]
NoBatch == Batch(<<>>, <<>>, <<>>)

\* the indexer raised inside its loop, before the add_texts call
RaisedBatch == [NoBatch EXCEPT !.raised = TRUE]

\* a text id without the hash of the document
TextIdNoHash(dh, page, i) == "text:p" \o Pad(page, 4) \o ":c" \o Pad(i, 4)

TextId(dh, page, i) == dh \o ":text:p" \o Pad(page, 4) \o ":c" \o Pad(i, 4)

\* index_text_docs up to the add_texts call; dh and doc_tag are metadata values
index_text_docs(docs, d, doc_hash, doc_tag) ==
    LET dh == PyOr(doc_hash, PyStr(file_sha256_short(Files[d].bytes)))
        chunks == _split_text_docs(docs)
        page(c) == c.metadata.page + 1
        meta(c) == [type |-> PyStr("text"),
                    pdf_path |-> PyOr(c.metadata.source, PyStr(PdfPath(d))),
                    file_name |-> PyStr(PathName(d)),
                    page |-> PyInt(page(c)),
                    page_label |-> c.metadata.page_label,
                    doc_tag |-> PyOr(doc_tag, PyStr(PathStem(d))),
                    doc_hash |-> dh]
    IN  Batch([i \in DOMAIN chunks |-> TextId(dh.v, page(chunks[i]), i - 1)],
              [i \in DOMAIN chunks |-> chunks[i].page_content],
              [i \in DOMAIN chunks |-> _clean_meta(meta(chunks[i]))])

\* a table id that starts with the page instead of the hash of the document
TableIdNoHash(dh, page, sig, i) == "table:p" \o Pad(page, 4) \o ":" \o sig \o ":" \o Pad(i, 2)

TableId(dh, page, sig, i) == dh \o ":table:p" \o Pad(page, 4) \o ":" \o sig \o ":" \o Pad(i, 2)

\* the stripped preview with no fallback
TableTextNoFallback(t) == Strip(t.preview_text)

\* (t.preview_text or "").strip() or f"Table on page {t.page}"
TableText(t) ==
    IF Strip(t.preview_text) # <<>> THEN Strip(t.preview_text)
    ELSE <<"T", "a", "b", "l", "e", " ", "o", "n", " ", "p", "a", "g", "e", " ">> \o Digits(t.page)

\* index_table_artifacts up to the add_texts call
index_table_artifacts(tables, d, doc_hash, doc_tag) ==
    LET dh == PyOr(doc_hash, PyStr(file_sha256_short(Files[d].bytes)))
        meta(t) == DictUpdate(
                     [type |-> PyStr("table"),
                      table_id |-> PyStr(t.table_id),
                      pdf_path |-> PyStr(t.pdf_path),
                      file_name |-> PyStr(PathName(d)),
                      page |-> PyInt(t.page),
                      csv_path |-> PyStr(t.csv_path),
                      json_path |-> PyStr(t.json_path),
                      bbox_sig |-> PyStr(_bbox_sig(t.bbox)),
                      doc_tag |-> PyOr(doc_tag, PyStr(PathStem(d))),
                      doc_hash |-> dh],
                     _bbox_fields(t.bbox))
    IN  Batch([i \in DOMAIN tables |->
                  TableId(dh.v, tables[i].page, _bbox_sig(tables[i].bbox), i - 1)],
              [i \in DOMAIN tables |-> TableText(tables[i])],
              [i \in DOMAIN tables |-> _clean_meta(meta(tables[i]))])

\* the png field of an image artifact whose file can no longer be read
NoFile == 0

\* Path(png_path).open("rb") raises for some image of the list
Unreadable(images) == \E i \in DOMAIN images : images[i].png = NoFile

\* the image discriminator taken from the extractor's image_id
ImageSigFromImageId(img) == img.image_id

\* line 198: the discriminator of an image is the hash of its file's bytes
ImageSig(img) == sha1_file(img.png)

ImageId(dh, page, imsig) == dh \o ":image:p" \o Pad(page, 4) \o ":" \o imsig

\* caption, then "OCR: " + ocr text when present, else the page / file-name fallback
ImageText(img, d) ==
    LET cap == Strip(img.caption)
        ocr == <<"O", "C", "R", ":", " ">>
        body == IF img.ocr_text # <<>>
                THEN Strip(cap \o (IF cap # <<>> THEN <<"\n">> ELSE <<>>) \o ocr \o Strip(img.ocr_text))
                ELSE cap
    IN  IF body # <<>> THEN body
        ELSE <<"I", "m", "a", "g", "e", " ", "o", "n", " ", "p", "a", "g", "e", " ">>
             \o Digits(img.page) \o <<" ", "o", "f", " ">> \o NameChars(d)

\* the image ids with the position of the image in the list appended
index_image_artifacts_numbered(images, d, doc_hash, doc_tag) ==
    LET dh == PyOr(doc_hash, PyStr(file_sha256_short(Files[d].bytes)))
        meta(img) == DictUpdate(
                       [type |-> PyStr("image"),
                        image_id |-> PyStr(img.image_id),
                        pdf_path |-> PyStr(img.pdf_path),
                        file_name |-> PyStr(PathName(d)),
                        png_path |-> PyStr(img.png_path),
                        page |-> PyInt(img.page),
                        bbox_sig |-> PyStr(_bbox_sig(img.bbox)),
                        has_caption |-> PyBool(img.caption # <<>>),
                        has_ocr |-> PyBool(img.ocr_text # <<>>),
                        doc_tag |-> PyOr(doc_tag, PyStr(PathStem(d))),
                        doc_hash |-> dh],
                       _bbox_fields(img.bbox))
    IN  IF Unreadable(images) THEN RaisedBatch
        ELSE Batch([i \in DOMAIN images |->
                       ImageId(dh.v, images[i].page, ImageSig(images[i])) \o ":" \o Pad(i - 1, 2)],
                   [i \in DOMAIN images |-> ImageText(images[i], d)],
                   [i \in DOMAIN images |-> _clean_meta(meta(images[i]))])

\* index_image_artifacts up to the add_texts call
index_image_artifacts(images, d, doc_hash, doc_tag) ==
    LET dh == PyOr(doc_hash, PyStr(file_sha256_short(Files[d].bytes)))
        meta(img) == DictUpdate(
                       [type |-> PyStr("image"),
                        image_id |-> PyStr(img.image_id),
                        pdf_path |-> PyStr(img.pdf_path),
                        file_name |-> PyStr(PathName(d)),
                        png_path |-> PyStr(img.png_path),
                        page |-> PyInt(img.page),
                        bbox_sig |-> PyStr(_bbox_sig(img.bbox)),
                        has_caption |-> PyBool(img.caption # <<>>),
                        has_ocr |-> PyBool(img.ocr_text # <<>>),
                        doc_tag |-> PyOr(doc_tag, PyStr(PathStem(d))),
                        doc_hash |-> dh],
                       _bbox_fields(img.bbox))
    IN  IF Unreadable(images) THEN RaisedBatch
        ELSE Batch([i \in DOMAIN images |-> ImageId(dh.v, images[i].page, ImageSig(images[i]))],
                   [i \in DOMAIN images |-> ImageText(images[i], d)],
                   [i \in DOMAIN images |-> _clean_meta(meta(images[i]))])

----------------------------------------------------------------------------
(* Artifact store (langchain_chroma.Chroma over one persist directory) *)

HasDuplicates(idl) == \E i, j \in DOMAIN idl : i # j /\ idl[i] = idl[j]

\* add_texts as a plain insert: a record with a known id is kept beside the new one
add_texts_insert(recs, batch) ==
    [raised |-> HasDuplicates(batch.ids),
     recs |-> recs \cup {[id |-> batch.ids[i], text |-> batch.texts[i], meta |-> batch.metas[i]] :
                           i \in DOMAIN batch.ids}]

\* add_texts that empties the collection before it writes the batch
add_texts_replace_all(recs, batch) ==
    IF HasDuplicates(batch.ids)
    THEN [raised |-> TRUE, recs |-> recs]
    ELSE [raised |-> FALSE,
          recs |-> {[id |-> batch.ids[i], text |-> batch.texts[i], meta |-> batch.metas[i]] :
                      i \in DOMAIN batch.ids}]

\* Chroma.add_texts -> collection.upsert: a batch that repeats an id is rejected as
\* a whole; otherwise a record with a known id is replaced and a new id is added
add_texts(recs, batch) ==
    IF HasDuplicates(batch.ids)
    THEN [raised |-> TRUE, recs |-> recs]
    ELSE [raised |-> FALSE,
          recs |-> {r \in recs : r.id \notin Range(batch.ids)}
                   \cup {[id |-> batch.ids[i], text |-> batch.texts[i], meta |-> batch.metas[i]] :
                           i \in DOMAIN batch.ids}]

IdsIn(recs) == {r.id : r \in recs}

\* the records of every collection whose metadata doc_hash is dh
RecsOf(st, dh) == [c \in Collections |-> {r \in st[c] : r.meta.doc_hash = PyStr(dh)}]

----------------------------------------------------------------------------
(* Idempotency gate (src/utils/helpers.py) *)

\* collection.get(where={"doc_hash": doc_hash}, limit=1)["ids"] is non-empty
Probe(recs, doc_hash) == \E r \in recs : r.meta.doc_hash = PyStr(doc_hash)

RECURSIVE IsIndexedFrom(_, _, _)
\* the for loop of is_already_indexed from COLLECTIONS[i] on: the answer and the
\* number of collections opened
IsIndexedFrom(i, doc_hash, st) ==
    IF i > Len(COLLECTIONS) THEN [result |-> FALSE, probed |-> i - 1]
    ELSE IF Probe(st[COLLECTIONS[i]], doc_hash) THEN [result |-> TRUE, probed |-> i]
    ELSE IsIndexedFrom(i + 1, doc_hash, st)

\* the gate with `return False` inside the loop: only the first collection is probed
is_already_indexed_first_only(doc_hash, st) ==
    [result |-> Probe(st[COLLECTIONS[1]], doc_hash), probed |-> 1]

is_already_indexed(doc_hash, st) == IsIndexedFrom(1, doc_hash, st)

\* Chroma(collection_name=...) creates the collection when it is not there yet
Opened(ex, names) == [c \in Collections |-> ex[c] \/ c \in names]

----------------------------------------------------------------------------
(* Ingest command (src/llm_poc/run_pipeline.py main) *)

NoResult == [pdf_path |-> ""]
NoIds == [text |-> <<>>, tables |-> <<>>, images |-> <<>>]
NoSnap == [ended |-> FALSE]

Terminal == {"idle", "done", "skipped", "crashed", "exit1"}

\* the inputs of a run: MODEL_API_KEY is set, and args.pdf or $PDF_PATH
Argv(api_key, pdf) == [api_key |-> api_key, pdf |-> pdf]

\* Path(pdf_path).exists()
PathExists(path) == \E d \in Docs : PdfPath(d) = path

\* the runs main() refuses: no API key, no path, a path with no file behind it
BadArgv == {Argv(FALSE, PdfPath("a")), Argv(TRUE, ""), Argv(TRUE, "pdfs/none.pdf")}

\* the file check left out
ValidateNoFileCheck(a) ==
    IF ~a.api_key THEN "exit1"
    ELSE IF a.pdf = "" THEN "exit1"
    ELSE "gate"

\* lines 39-52: the three sys.exit(1) of main(), else on to the gate
Validate(a) ==
    IF ~a.api_key THEN "exit1"
    ELSE IF a.pdf = "" THEN "exit1"
    ELSE IF ~PathExists(a.pdf) THEN "exit1"
    ELSE "gate"

\* exit status of the python process that ended at pcv: return from main() is 0,
\* sys.exit(1) and an uncaught exception are 1
ExitStatus(pcv) == IF pcv \in {"done", "skipped"} THEN 0 ELSE 1

\* no helper or retriever call is in flight
Quiet == gate = NoCall /\ query = NoCall

\* the doc_tag main() passes: {"doc_hash": doc_hash, "file_name": pdf_path.name}
MainDocTag(d) ==
    PyDict("{'doc_hash': '" \o file_sha256(Files[d].bytes) \o "', 'file_name': '"
           \o PathName(d) \o "'}")

\* index_all_modalities, lines 247-248: the hash and tag handed to the three indexers
AllHash(d, doc_hash) == PyOr(doc_hash, PyStr(file_sha256_short(Files[d].bytes)))
AllTag(d, doc_tag) == PyOr(doc_tag, PyStr(PathStem(d)))

RECURSIVE Sum(_, _)
Sum(f, S) == IF S = {} THEN 0 ELSE LET x == CHOOSE x \in S : TRUE IN f[x] + Sum(f, S \ {x})

\* scripts started so far
Started == Sum(runs, Docs)

\* a new run of the command: parse arguments, pdf exists
Start(p, docChoice, forceChoice, limit) ==
    /\ Quiet
    /\ pc[p] \in Terminal
    /\ \E d \in docChoice, f \in forceChoice :
          /\ Started < limit
          /\ runs' = [runs EXCEPT ![d] = @ + 1]
          /\ doc' = [doc EXCEPT ![p] = d]
          /\ force' = [force EXCEPT ![p] = f]
    /\ entry' = [entry EXCEPT ![p] = "run_pipeline"]
    /\ argv' = [argv EXCEPT ![p] = Argv(TRUE, PdfPath(doc'[p]))]
    /\ pc' = [pc EXCEPT ![p] = Validate(argv'[p])]
    /\ already' = [already EXCEPT ![p] = FALSE]
    /\ result' = [result EXCEPT ![p] = NoResult]
    /\ ids' = [ids EXCEPT ![p] = NoIds]
    /\ UNCHANGED <<store, exists, snap, gate, query>>

\* llm_poc/__main__.py: the script extracts and indexes with no gate, no doc_hash
\* and no doc_tag
StartPoc(p, docChoice, limit) ==
    /\ Quiet
    /\ pc[p] \in Terminal
    /\ \E d \in docChoice :
          /\ Started < limit
          /\ runs' = [runs EXCEPT ![d] = @ + 1]
          /\ doc' = [doc EXCEPT ![p] = d]
    /\ force' = [force EXCEPT ![p] = FALSE]
    /\ entry' = [entry EXCEPT ![p] = "llm_poc"]
    /\ argv' = [argv EXCEPT ![p] = Argv(TRUE, PdfPath(doc'[p]))]
    /\ pc' = [pc EXCEPT ![p] = "extract"]
    /\ already' = [already EXCEPT ![p] = FALSE]
    /\ result' = [result EXCEPT ![p] = NoResult]
    /\ ids' = [ids EXCEPT ![p] = NoIds]
    /\ UNCHANGED <<store, exists, snap, gate, query>>

\* a run of the command with a required input missing: main() ends at one of its
\* sys.exit(1) before the hash is taken or a collection is opened
Reject(p) ==
    /\ Quiet
    /\ pc[p] \in Terminal
    /\ \E a \in BadArgv :
          /\ argv' = [argv EXCEPT ![p] = a]
          /\ pc' = [pc EXCEPT ![p] = Validate(a)]
    /\ entry' = [entry EXCEPT ![p] = "run_pipeline"]
    /\ force' = [force EXCEPT ![p] = FALSE]
    /\ already' = [already EXCEPT ![p] = FALSE]
    /\ result' = [result EXCEPT ![p] = NoResult]
    /\ ids' = [ids EXCEPT ![p] = NoIds]
    /\ UNCHANGED <<store, exists, doc, snap, runs, gate, query>>

\* the doc_tag argument of the index_all_modalities call of the script run
DocTagArg(p) == IF entry[p] = "run_pipeline" THEN MainDocTag(doc[p]) ELSE PyNone

\* the gate's answer overruling --force
AfterGateIgnoresForce(is_indexed, forced) == IF is_indexed THEN "skipped" ELSE "extract"

\* lines 62-66: `if already and not args.force: return`, else on to the ingestion
AfterGate(is_indexed, forced) == IF is_indexed /\ ~forced THEN "skipped" ELSE "extract"

\* lines 59-64: hash the file, ask the gate, skip unless forced
Gate(p) ==
    /\ Quiet
    /\ pc[p] = "gate"
    /\ LET doc_hash == file_sha256(Files[doc[p]].bytes)
           g == is_already_indexed(doc_hash, store)
       IN  /\ already' = [already EXCEPT ![p] = g.result]
           /\ exists' = Opened(exists, Range(SubSeq(COLLECTIONS, 1, g.probed)))
           /\ pc' = [pc EXCEPT ![p] = AfterGate(g.result, force[p])]
    /\ UNCHANGED <<store, doc, force, entry, argv, result, ids, snap, runs, gate, query>>

\* lines 68-85: ingest_pdf_multimodal
Extract(p, uuidChoice, captionChoice) ==
    /\ Quiet
    /\ pc[p] = "extract"
    /\ \E u \in uuidChoice, captioned \in captionChoice :
          result' = [result EXCEPT ![p] = ingest_pdf_multimodal(doc[p], u, captioned)]
    /\ pc' = [pc EXCEPT ![p] = "index_text"]
    /\ UNCHANGED <<store, exists, doc, force, entry, argv, already, ids, snap, runs, gate, query>>

\* the run of process p ends: the first run of a document to end leaves its
\* records and id lists in snap
Ended(p, st, idl, raised) ==
    LET d == doc[p]
    IN  snap' = IF snap[d] # NoSnap THEN snap
                ELSE [snap EXCEPT ![d] =
                        [ended |-> TRUE,
                         ok |-> ~raised,
                         recs |-> RecsOf(st, file_sha256_short(Files[d].bytes)),
                         ids |-> idl]]

\* one indexer call of index_all_modalities: nothing when the artifact list is
\* empty, else open the collection and upsert the batch
IndexStep(p, kind, coll, artifacts, batch, nextpc) ==
    LET idl == [ids[p] EXCEPT ![kind] = batch.ids]
        up == IF batch.raised THEN [raised |-> TRUE, recs |-> store[coll]]
              ELSE add_texts(store[coll], batch)
        st == [store EXCEPT ![coll] = up.recs]
        raised == artifacts # <<>> /\ up.raised
        last == raised \/ nextpc = "done"
    IN  /\ IF artifacts = <<>>
           THEN UNCHANGED <<store, exists, ids>>
           ELSE /\ store' = st
                /\ exists' = Opened(exists, {coll})
                /\ ids' = [ids EXCEPT ![p] = idl]
        /\ pc' = [pc EXCEPT ![p] = IF raised THEN "crashed" ELSE nextpc]
        /\ IF last THEN Ended(p, store', ids'[p], raised) ELSE UNCHANGED snap
        /\ result' = [result EXCEPT ![p] = IF last THEN NoResult ELSE @]
        /\ UNCHANGED <<doc, force, entry, argv, already, runs, gate, query>>

\* index_all_modalities lines 251-259
IndexText(p) ==
    /\ Quiet
    /\ pc[p] = "index_text"
    /\ LET d == doc[p]
           docs == result[p].text
       IN  IndexStep(p, "text", "pdf_text", docs,
                     index_text_docs(docs, d, AllHash(d, PyNone), AllTag(d, DocTagArg(p))),
                     "index_tables")

\* index_all_modalities lines 260-268
IndexTables(p) ==
    /\ Quiet
    /\ pc[p] = "index_tables"
    /\ LET d == doc[p]
           tables == result[p].tables
       IN  IndexStep(p, "tables", "pdf_tables", tables,
                     index_table_artifacts(tables, d, AllHash(d, PyNone), AllTag(d, DocTagArg(p))),
                     "index_images")

\* index_all_modalities lines 269-278
IndexImages(p) ==
    /\ Quiet
    /\ pc[p] = "index_images"
    /\ LET d == doc[p]
           images == result[p].images
       IN  IndexStep(p, "images", "pdf_images", images,
                     index_image_artifacts(images, d, AllHash(d, PyNone), AllTag(d, DocTagArg(p))),
                     "done")

----------------------------------------------------------------------------
(* Faults of the environment during a run *)

\* the file of one extracted image is removed or made unreadable before the image
\* indexer hashes it
LoseArtifact(p) ==
    /\ Quiet
    /\ pc[p] \in {"index_text", "index_tables", "index_images"}
    /\ \E i \in DOMAIN result[p].images :
          /\ result[p].images[i].png # NoFile
          /\ result' = [result EXCEPT ![p].images[i].png = NoFile]
    /\ UNCHANGED <<store, exists, pc, doc, force, entry, argv, already, ids, snap, runs, gate, query>>

\* the process is killed between two indexer calls of index_all_modalities
Interrupt(p) ==
    /\ Quiet
    /\ pc[p] \in {"index_tables", "index_images"}
    /\ pc' = [pc EXCEPT ![p] = "crashed"]
    /\ Ended(p, store, ids[p], TRUE)
    /\ result' = [result EXCEPT ![p] = NoResult]
    /\ UNCHANGED <<store, exists, doc, force, entry, argv, already, ids, runs, gate, query>>

----------------------------------------------------------------------------
(* A direct call of the gate helper, with any hash value *)

HashInputs == {file_sha256(Files[d].bytes) : d \in Docs}
              \cup {file_sha256_short(Files[d].bytes) : d \in Docs}

CheckIndexed ==
    /\ Quiet
    /\ \E h \in HashInputs :
          LET g == is_already_indexed(h, store)
          IN  /\ gate' = [op |-> "is_already_indexed", doc_hash |-> h,
                          result |-> g.result, probed |-> g.probed]
              /\ exists' = Opened(exists, Range(SubSeq(COLLECTIONS, 1, g.probed)))
    /\ UNCHANGED <<store, pc, doc, force, entry, argv, already, result, ids, snap, runs, query>>

GateReturn ==
    /\ gate # NoCall
    /\ gate' = NoCall
    /\ UNCHANGED <<store, exists, pc, doc, force, entry, argv, already, result, ids, snap, runs, query>>

----------------------------------------------------------------------------
(* Specification of sequential ingestion *)

Init ==
    /\ store = [c \in Collections |-> {}]
    /\ exists = [c \in Collections |-> FALSE]
    /\ pc = [p \in Procs |-> "idle"]
    /\ doc = [p \in Procs |-> "a"]
    /\ force = [p \in Procs |-> FALSE]
    /\ entry = [p \in Procs |-> "run_pipeline"]
    /\ argv = [p \in Procs |-> Argv(TRUE, PdfPath("a"))]
    /\ already = [p \in Procs |-> FALSE]
    /\ result = [p \in Procs |-> NoResult]
    /\ ids = [p \in Procs |-> NoIds]
    /\ snap = [d \in Docs |-> NoSnap]
    /\ runs = [d \in Docs |-> 0]
    /\ gate = NoCall
    /\ query = NoCall

Next ==
    \/ \E p \in SeqProcs : Start(p, Docs, BOOLEAN, MaxRuns)
    \/ \E p \in SeqProcs : StartPoc(p, Docs, MaxRuns)
    \/ \E p \in SeqProcs : Reject(p)
    \/ \E p \in SeqProcs : Gate(p)
    \/ \E p \in SeqProcs : Extract(p, Uuids, BOOLEAN)
    \/ \E p \in SeqProcs : IndexText(p)
    \/ \E p \in SeqProcs : IndexTables(p)
    \/ \E p \in SeqProcs : IndexImages(p)
    \/ CheckIndexed
    \/ GateReturn

Spec == Init /\ [][Next]_vars

----------------------------------------------------------------------------
(* Specification of ingestion with faults: runs of the command without --force, *)
(* artifact files that get lost and processes that are killed                   *)

MaxFaultRuns == 2   \* ingest scripts started in the specification with faults

NextFaults ==
    \/ \E p \in SeqProcs : Start(p, Docs, {FALSE}, MaxFaultRuns)
    \/ \E p \in SeqProcs : Gate(p)
    \/ \E p \in SeqProcs : Extract(p, OneUuid, {FALSE})
    \/ \E p \in SeqProcs : IndexText(p)
    \/ \E p \in SeqProcs : IndexTables(p)
    \/ \E p \in SeqProcs : IndexImages(p)
    \/ \E p \in SeqProcs : LoseArtifact(p)
    \/ \E p \in SeqProcs : Interrupt(p)

SpecFaults == Init /\ [][NextFaults]_vars

----------------------------------------------------------------------------
(* Specification of the indexers called directly, with artifacts a caller built *)

MaxDirectCalls == 2     \* direct indexer calls

\* a TableArtifact on page `page` of document d
TableArtifact(d, page, bbox, preview) ==
    [table_id |-> "tbl-" \o Pad(page, 4) \o "-00-3f9a1c",
     pdf_path |-> PdfPath(d),
     page |-> page,
     bbox |-> bbox,
     csv_path |-> ARTIFACTS_DIR \o "/tables/" \o PathStem(d) \o "/t.csv",
     json_path |-> ARTIFACTS_DIR \o "/tables/" \o PathStem(d) \o "/t.json",
     preview_text |-> preview]

\* preview texts: empty, blank, plain, and with whitespace around
Previews == {<<>>, <<" ">>, <<"T", ".">>, <<"T", ".", " ">>, <<"\n", "T", ".">>}

BBoxes == {NoBBox, <<3, 4, 21, 10>>}

TableInputs ==
    LET one == {TableArtifact("a", page, bbox, preview) :
                    page \in {1, 2}, bbox \in BBoxes, preview \in Previews}
        last == {TableArtifact("a", 1, NoBBox, <<>>), TableArtifact("a", 2, <<3, 4, 21, 10>>, <<"T", ".", " ">>)}
    IN  {<<t>> : t \in one} \cup {<<t, u>> : t \in one, u \in last}

\* an ImageArtifact on page `page` of document d whose file holds `png`
ImageArtifact(d, page, bbox, png, caption) ==
    [image_id |-> "fig-p" \o Pad(page, 4) \o "-img00-3f9a1c",
     pdf_path |-> PdfPath(d),
     page |-> page,
     bbox |-> bbox,
     png_path |-> ARTIFACTS_DIR \o "/figures/" \o PathStem(d) \o "/f.png",
     png |-> png,
     caption |-> caption,
     ocr_text |-> <<>>]

ImageInputs ==
    LET one == {ImageArtifact("a", page, bbox, 11, caption) :
                    page \in {1, 2}, bbox \in {NoBBox, <<0, 0, 24, 32>>}, caption \in {<<>>, Caption}}
        last == {ImageArtifact("a", 2, NoBBox, 12, <<>>)}
    IN  {<<t>> : t \in one} \cup {<<t, u>> : t \in one, u \in last}

\* one indexer called directly: the batch is upserted and the call is in flight
\* until it returns
CallIndexer(op, coll, artifacts, batch) ==
    LET up == IF batch.raised THEN [raised |-> TRUE, recs |-> store[coll]]
              ELSE add_texts(store[coll], batch)
    IN  /\ Quiet
        /\ Started < MaxDirectCalls
        /\ runs' = [runs EXCEPT !["a"] = @ + 1]
        /\ store' = [store EXCEPT ![coll] = up.recs]
        /\ exists' = Opened(exists, {coll})
        /\ gate' = [op |-> op, artifacts |-> artifacts, ids |-> batch.ids, raised |-> up.raised]
        /\ UNCHANGED <<pc, doc, force, entry, argv, already, result, ids, snap, query>>

\* index_table_artifacts(tables, emb, pdf_path=...)
CallIndexTables ==
    \E tables \in TableInputs :
        CallIndexer("index_table_artifacts", "pdf_tables", tables,
                    index_table_artifacts(tables, "a", PyNone, PyNone))

\* index_image_artifacts(images, emb, pdf_path=...)
CallIndexImages ==
    \E images \in ImageInputs :
        CallIndexer("index_image_artifacts", "pdf_images", images,
                    index_image_artifacts(images, "a", PyNone, PyNone))

Kinds == {"text", "tables", "images"}

\* the dict of ingest_pdf_multimodal with the kinds outside `kept` empty; an absent
\* or None entry is read by result.get(kind) as None, which the indexers treat as
\* they treat []
Masked(res, kept) == [k \in DOMAIN res |-> IF k \in Kinds \ kept THEN <<>> ELSE res[k]]

ResultInputs ==
    {[d |-> d, result |-> Masked(ingest_pdf_multimodal(d, "3f9a1c", FALSE), kept)] :
        d \in Docs, kept \in SUBSET Kinds}

\* an indexer that opens its collection and returns the store for any input
IndexerCallNoSkip(acc, kind, coll, artifacts, batch) ==
    IF acc.raised THEN acc
    ELSE LET up == IF batch.raised THEN [raised |-> TRUE, recs |-> acc.store[coll]]
                   ELSE add_texts(acc.store[coll], batch)
         IN  [store |-> [acc.store EXCEPT ![coll] = up.recs],
              exists |-> Opened(acc.exists, {coll}),
              raised |-> up.raised,
              stores |-> [acc.stores EXCEPT ![kind] = IF up.raised THEN @ ELSE "Chroma"],
              ids |-> [acc.ids EXCEPT ![kind] = batch.ids]]

\* one indexer inside index_all_modalities, run on what the earlier ones left in
\* acc: None for no artifacts (`if not docs: return None`), else the collection is
\* opened, the batch upserted and the store returned
IndexerCall(acc, kind, coll, artifacts, batch) ==
    IF acc.raised THEN acc
    ELSE IF artifacts = <<>> THEN [acc EXCEPT !.stores[kind] = "None"]
    ELSE LET up == IF batch.raised THEN [raised |-> TRUE, recs |-> acc.store[coll]]
                   ELSE add_texts(acc.store[coll], batch)
         IN  [store |-> [acc.store EXCEPT ![coll] = up.recs],
              exists |-> Opened(acc.exists, {coll}),
              raised |-> up.raised,
              stores |-> [acc.stores EXCEPT ![kind] = IF up.raised THEN @ ELSE "Chroma"],
              ids |-> [acc.ids EXCEPT ![kind] = batch.ids]]

\* index_all_modalities(result, emb): the three indexers one after the other with
\* one hash and one tag; stores is the dict it returns
index_all_modalities(res, d, doc_hash, doc_tag) ==
    LET dh == AllHash(d, doc_hash)
        tag == AllTag(d, doc_tag)
        called == [store |-> store, exists |-> exists, raised |-> FALSE,
                   stores |-> [k \in Kinds |-> "unset"], ids |-> NoIds]
        text == IndexerCall(called, "text", "pdf_text", res.text,
                            index_text_docs(res.text, d, dh, tag))
        tables == IndexerCall(text, "tables", "pdf_tables", res.tables,
                              index_table_artifacts(res.tables, d, dh, tag))
    IN  IndexerCall(tables, "images", "pdf_images", res.images,
                    index_image_artifacts(res.images, d, dh, tag))

\* index_all_modalities called directly on a result dict
CallIndexAll ==
    \E inp \in ResultInputs :
        LET out == index_all_modalities(inp.result, inp.d, PyNone, PyNone)
        IN  /\ Quiet
            /\ Started < MaxDirectCalls
            /\ runs' = [runs EXCEPT ![inp.d] = @ + 1]
            /\ store' = out.store
            /\ exists' = out.exists
            /\ gate' = [op |-> "index_all_modalities", d |-> inp.d, result |-> inp.result,
                        stores |-> out.stores, ids |-> out.ids, raised |-> out.raised]
            /\ UNCHANGED <<pc, doc, force, entry, argv, already, result, ids, snap, query>>

NextIndexer ==
    \/ CallIndexTables
    \/ CallIndexImages
    \/ CallIndexAll
    \/ GateReturn

SpecIndexer == Init /\ [][NextIndexer]_vars

----------------------------------------------------------------------------
(* Specification of concurrent ingestion: two processes run the command *)

MaxConcRuns == 2    \* ingest scripts started in the concurrent specification

NextConc ==
    \/ \E p \in Procs : Start(p, Docs, BOOLEAN, MaxConcRuns)
    \/ \E p \in Procs : Gate(p)
    \/ \E p \in Procs : Extract(p, Uuids, BOOLEAN)
    \/ \E p \in Procs : IndexText(p)
    \/ \E p \in Procs : IndexTables(p)
    \/ \E p \in Procs : IndexImages(p)

SpecConc == Init /\ [][NextConc]_vars

----------------------------------------------------------------------------
(* Retrieval fusion (src/retriever/rag_retriever.py, retriever_collection.py) *)

K_EACH == 4
Queries == {"q1", "q2"}

\* the embedding capability: a text is a point on a line, a query another
Embed(text) == Len(text) % 5
EmbedQuery(q) == IF q = "q1" THEN 0 ELSE 3

\* distance score of a record for a query; lower is closer
Distance(q, r) ==
    IF Embed(r.text) >= EmbedQuery(q) THEN Embed(r.text) - EmbedQuery(q)
    ELSE EmbedQuery(q) - Embed(r.text)

RECURSIVE Nearest(_, _, _)
\* the k records of recs nearest to q, nearest first
Nearest(recs, q, k) ==
    IF k <= 0 \/ recs = {} THEN <<>>
    ELSE LET r == CHOOSE x \in recs : \A y \in recs : Distance(q, x) <= Distance(q, y)
         IN  <<r>> \o Nearest(recs \ {r}, q, k - 1)

\* a search that answers with one result more than it was asked for
similarity_search_one_more(recs, q, k) ==
    LET near == Nearest(recs, q, k + 1)
    IN  [i \in DOMAIN near |->
            [doc |-> [page_content |-> near[i].text, metadata |-> near[i].meta],
             score |-> Distance(q, near[i])]]

\* Chroma.similarity_search_with_score: (Document, score) pairs, nearest first
similarity_search_with_score(recs, q, k) ==
    LET near == Nearest(recs, q, k)
    IN  [i \in DOMAIN near |->
            [doc |-> [page_content |-> near[i].text, metadata |-> near[i].meta],
             score |-> Distance(q, near[i])]]

\* ctx.append({"collection": name, "doc": doc, "score": float(score)}) for each result
Tagged(name, results) ==
    [i \in DOMAIN results |->
        [collection |-> name, doc |-> results[i].doc, score |-> results[i].score]]

RECURSIVE InsertBeforeEqual(_, _)
\* x put in front of the entries whose score is equal or larger
InsertBeforeEqual(sorted, x) ==
    IF sorted = <<>> THEN <<x>>
    ELSE IF Head(sorted).score < x.score THEN <<Head(sorted)>> \o InsertBeforeEqual(Tail(sorted), x)
    ELSE <<x>> \o sorted

RECURSIVE InsertByScore(_, _)
\* x put behind every entry whose score is not larger
InsertByScore(sorted, x) ==
    IF sorted = <<>> THEN <<x>>
    ELSE IF Head(sorted).score <= x.score THEN <<Head(sorted)>> \o InsertByScore(Tail(sorted), x)
    ELSE <<x>> \o sorted

RECURSIVE SortFrom(_, _)
SortFrom(sorted, rest) ==
    IF rest = <<>> THEN sorted ELSE SortFrom(InsertByScore(sorted, Head(rest)), Tail(rest))

\* the merged list left in fan-out order
KeepOrder(ctx) == ctx

\* ctx.sort(key=lambda x: x["score"]): ascending and stable
SortByScore(ctx) == SortFrom(<<>>, ctx)

\* s[:n + 1]
PySliceOneMore(s, n) == SubSeq(s, 1, IF n + 1 < Len(s) THEN n + 1 ELSE Len(s))

\* s[:n]
PySlice(s, n) ==
    IF n >= 0 THEN SubSeq(s, 1, IF n < Len(s) THEN n ELSE Len(s))
    ELSE SubSeq(s, 1, IF Len(s) + n > 0 THEN Len(s) + n ELSE 0)

RECURSIVE FanOut(_, _, _, _, _, _)
\* the for loop of retrieve_context from self.collections[i] on: each collection
\* is opened, then searched; there is no try around the search, so a search of a
\* collection in fails (the store answers it with a not-found error) ends the loop
\* and the call
FanOut(i, q, k, fails, ex, ctx) ==
    IF i > Len(COLLECTIONS) THEN [raised |-> FALSE, ctx |-> ctx, per |-> <<>>, exists |-> ex]
    ELSE LET name == COLLECTIONS[i]
             opened == Opened(ex, {name})
             results == similarity_search_with_score(store[name], q, k)
             rest == FanOut(i + 1, q, k, fails, opened, ctx \o Tagged(name, results))
         IN  IF name \in fails
             THEN [raised |-> TRUE, ctx |-> ctx, per |-> <<>>, exists |-> opened]
             ELSE [rest EXCEPT !.per = <<results>> \o @]

\* RAGRetriever.retrieve_context
retrieve_context(q, k_each, top_n, fails) ==
    LET k == IF k_each # 0 THEN k_each ELSE K_EACH
        fan == FanOut(1, q, k, fails, exists, <<>>)
    IN  [op |-> "retrieve_context",
         raised |-> fan.raised,
         k_each |-> k_each,
         k |-> k,
         top_n |-> top_n,
         missing |-> {c \in Collections : ~exists[c]},
         fails |-> fails,
         per |-> fan.per,
         found |-> fan.ctx,
         hits |-> IF fan.raised THEN <<>> ELSE PySlice(SortByScore(fan.ctx), top_n),
         exists |-> fan.exists]

Marker == <<" ", "...">>

\* the text cut one character late
TruncateOneMore(page_content, max_chars_per_chunk) ==
    LET text == Strip(page_content)
    IN  IF max_chars_per_chunk # 0 /\ Len(text) > max_chars_per_chunk
        THEN SubSeq(text, 1, max_chars_per_chunk + 1) \o <<" ", "...">>
        ELSE text

\* lines 76-78: strip, then cut to max_chars_per_chunk and append the marker
Truncate(page_content, max_chars_per_chunk) ==
    LET text == Strip(page_content)
    IN  IF max_chars_per_chunk # 0 /\ Len(text) > max_chars_per_chunk
        THEN PySlice(text, max_chars_per_chunk) \o Marker
        ELSE text

\* RAGRetriever.format_context: one block per snippet, as the three parts of
\* f"[{name} p{page}] {text}\n(Source: {src})"
format_context(snips, max_chars_per_chunk) ==
    [i \in DOMAIN snips |->
        LET m == snips[i].doc.metadata
            src == PyOr(PyOr(m.file_name, m.pdf_path), PyStr(""))
        IN  [label |-> "[" \o snips[i].collection \o " p" \o m.page.v \o "] ",
             text |-> Truncate(snips[i].doc.page_content, max_chars_per_chunk),
             source |-> "\n(Source: " \o src.v \o ")"]]

\* the searches the store may answer with a not-found error during one call
Failing == {{}} \cup {{c} : c \in Collections}

\* a caller runs retrieve_context
Retrieve ==
    /\ Quiet
    /\ \E q \in Queries, k_each \in 0..MaxK, top_n \in 0..MaxTopN, fails \in Failing :
          /\ query' = [retrieve_context(q, k_each, top_n, fails) EXCEPT !.exists = {}]
          /\ exists' = retrieve_context(q, k_each, top_n, fails).exists
    /\ UNCHANGED <<store, pc, doc, force, entry, argv, already, result, ids, snap, runs, gate>>

\* the f-string of a block
Block(b) == b.label \o Join(b.text) \o b.source

Separator == "\n\n---\n\n"

RECURSIVE JoinBlocks(_)
\* "\n\n---\n\n".join(blocks)
JoinBlocks(blocks) ==
    IF blocks = <<>> THEN ""
    ELSE IF Len(blocks) = 1 THEN Head(blocks)
    ELSE Head(blocks) \o Separator \o JoinBlocks(Tail(blocks))

\* the two RAGRetriever classes
Impls == {"rag_retriever", "retriever_collection"}

\* what format_context returns: rag_retriever joins the blocks into one str,
\* retriever_collection returns the list of blocks
format_context_return(impl, blocks) ==
    LET strs == [i \in DOMAIN blocks |-> Block(blocks[i])]
    IN  IF impl = "rag_retriever" THEN [t |-> "str", v |-> JoinBlocks(strs)]
        ELSE [t |-> "list", v |-> strs]

\* the caller formats the hits it was given
Format ==
    /\ query # NoCall
    /\ query.op = "retrieve_context"
    /\ ~query.raised
    /\ \E impl \in Impls, max_chars_per_chunk \in (-1)..MaxChars :
          query' = [op |-> "format_context",
                    impl |-> impl,
                    snips |-> query.hits,
                    max_chars_per_chunk |-> max_chars_per_chunk,
                    blocks |-> format_context(query.hits, max_chars_per_chunk),
                    returned |-> format_context_return(
                                    impl, format_context(query.hits, max_chars_per_chunk))]
    /\ UNCHANGED <<store, exists, pc, doc, force, entry, argv, already, result, ids, snap, runs, gate>>

AnswerText == "Scaled dot-product attention divides by sqrt(d_k)."

\* GeminiClient.generate: resp.content, or None when the call raised (lines 68-71)
generate(llm_fails) == IF llm_fails THEN PyNone ELSE PyStr(AnswerText)

\* an answering capability that is asked a second time when the first call failed
AnsweredWithRetry(impl, llm_fails) ==
    [raised |-> FALSE, answer_text |-> PyStr(AnswerText), calls |-> IF llm_fails THEN 2 ELSE 1]

\* what the call of the answering capability leaves in answer(): rag_retriever calls
\* llm.invoke with nothing around it; retriever_collection calls generate() and, the
\* response having no .content, takes str(resp); calls counts the calls made
Answered(impl, llm_fails) ==
    IF impl = "rag_retriever"
    THEN [raised |-> llm_fails, answer_text |-> PyStr(AnswerText), calls |-> 1]
    ELSE [raised |-> FALSE, answer_text |-> PyStr(generate(llm_fails).v), calls |-> 1]

\* the searches of a retrieve_context call, in the order they were made
Searches(found) ==
    [i \in 1..(IF found.raised THEN Len(found.per) + 1 ELSE Len(COLLECTIONS)) |->
        "search " \o COLLECTIONS[i]]

\* RAGRetriever.answer: retrieve, format, ask the model; nothing is returned when
\* a step raised; steps lists what the call did, in order
answer(impl, q, top_n, max_chars_per_chunk, fails, llm_fails) ==
    LET found == retrieve_context(q, 0, top_n, fails)
        context == format_context(found.hits, max_chars_per_chunk)
        resp == Answered(impl, llm_fails)
        raised == found.raised \/ resp.raised
    IN  [op |-> "answer",
         impl |-> impl,
         q |-> q,
         top_n |-> top_n,
         max_chars_per_chunk |-> max_chars_per_chunk,
         steps |-> IF found.raised THEN Searches(found)
                   ELSE Searches(found) \o <<"format_context">>
                        \o [i \in 1..resp.calls |-> "invoke"],
         llm_failed |-> llm_fails /\ ~found.raised,
         raised |-> raised,
         retrieved |-> found.hits,
         answer_text |-> IF raised THEN PyNone ELSE resp.answer_text,
         hits |-> IF raised THEN <<>> ELSE found.hits,
         context |-> IF raised THEN <<>> ELSE context,
         returned_context |-> IF raised THEN PyNone ELSE format_context_return(impl, context),
         exists |-> found.exists]

\* a caller runs answer()
Answer ==
    /\ Quiet
    /\ \E impl \in Impls, q \in Queries, llm_fails \in BOOLEAN :
          /\ query' = [answer(impl, q, MaxTopN, MaxChars, {}, llm_fails) EXCEPT !.exists = {}]
          /\ exists' = answer(impl, q, MaxTopN, MaxChars, {}, llm_fails).exists
    /\ UNCHANGED <<store, pc, doc, force, entry, argv, already, result, ids, snap, runs, gate>>

QueryReturn ==
    /\ query # NoCall
    /\ query' = NoCall
    /\ UNCHANGED <<store, exists, pc, doc, force, entry, argv, already, result, ids, snap, runs, gate>>

----------------------------------------------------------------------------
(* Specification of queries over a store that ingestion fills *)

NextQuery ==
    \/ \E p \in SeqProcs : Start(p, Docs, {FALSE}, MaxQueryRuns)
    \/ \E p \in SeqProcs : StartPoc(p, Docs, MaxQueryRuns)
    \/ \E p \in SeqProcs : Gate(p)
    \/ \E p \in SeqProcs : Extract(p, OneUuid, BOOLEAN)
    \/ \E p \in SeqProcs : IndexText(p)
    \/ \E p \in SeqProcs : IndexTables(p)
    \/ \E p \in SeqProcs : IndexImages(p)
    \/ Retrieve
    \/ Format
    \/ Answer
    \/ QueryReturn

SpecQuery == Init /\ [][NextQuery]_vars

----------------------------------------------------------------------------
(* Properties of ingestion *)

IndexPcs == {"index_text", "index_tables", "index_images"}

DocHash(d) == file_sha256_short(Files[d].bytes)

\* process p takes an indexer step of a run on a document whose first run has ended
RerunStep(p) == pc[p] \in IndexPcs /\ pc'[p] # pc[p] /\ snap[doc[p]] # NoSnap

\* C1: once a run on a document has ended, an indexer step of a later run on the same
\* bytes leaves the id set and the record count of every collection as they were
C1_RerunKeepsIdSets ==
    [][\A p \in Procs :
          RerunStep(p) =>
              \A c \in Collections :
                  /\ IdsIn(store'[c]) = IdsIn(store[c])
                  /\ Cardinality(store'[c]) = Cardinality(store[c])]_vars

\* a forced second run has written all three collections again, with other uuids
C1_Witness ==
    \E p \in Procs :
        /\ pc[p] = "done" /\ force[p] /\ runs[doc[p]] = 2
        /\ snap[doc[p]] # NoSnap
        /\ RecsOf(store, DocHash(doc[p])) # snap[doc[p]].recs
        /\ \A c \in Collections : store[c] # {}

\* C2: a run without --force on a document that a successful run has indexed finds it
\* already indexed and is skipped (no indexer is reached)
C2_RerunIsSkipped ==
    \A p \in Procs :
        (/\ pc[p] \notin {"idle", "gate"}
         /\ ~force[p]
         /\ runs[doc[p]] >= 2
         /\ snap[doc[p]] # NoSnap
         /\ snap[doc[p]].ok
         /\ (pc[p] \in Terminal => RecsOf(store, DocHash(doc[p])) # [c \in Collections |-> {}]))
        => (already[p] /\ pc[p] = "skipped")

\* C3: a record written again by a later run on the same bytes has the metadata the
\* first run gave it
C3_RerunKeepsMetadata ==
    \A d \in Docs :
        snap[d] # NoSnap =>
            \A c \in Collections :
                \A r \in store[c], s \in snap[d].recs[c] :
                    r.id = s.id => r.meta = s.meta

\* C4: every run on a document computes, kind by kind, the id sequence its first run
\* computed, whatever the store holds and whatever the extractor's random ids are
C4_SameIdSequence ==
    \A p \in Procs :
        snap[doc[p]] # NoSnap =>
            \A kind \in DOMAIN NoIds :
                ids[p][kind] # <<>> => ids[p][kind] = snap[doc[p]].ids[kind]

\* a second run, over a store its first run and another document filled, has computed
\* all its ids from artifacts whose random ids differ from the first run's
C4_Witness ==
    \E p \in Procs :
        /\ pc[p] = "done" /\ runs[doc[p]] = 2
        /\ snap[doc[p]] # NoSnap
        /\ \A kind \in DOMAIN NoIds : ids[p][kind] # <<>> /\ ids[p][kind] = snap[doc[p]].ids[kind]
        /\ \E r \in store["pdf_tables"], s \in snap[doc[p]].recs["pdf_tables"] :
              r.id = s.id /\ r.meta.table_id # s.meta.table_id
        /\ \E d \in Docs : d # doc[p] /\ snap[d] # NoSnap

\* C5: a call of the gate answers true exactly when some collection holds a record
\* whose doc_hash is the hash asked for, and answers false only after probing all
C5_GateIffRecorded ==
    [][(gate = NoCall /\ gate' # NoCall) =>
          /\ gate'.result <=>
                \E c \in Collections : \E r \in store[c] : r.meta.doc_hash.v = gate'.doc_hash
          /\ ~gate'.result => gate'.probed = Len(COLLECTIONS)]_vars

\* the gate has answered true for a hash some collection holds
C5_Witness ==
    /\ gate # NoCall
    /\ gate.result
    /\ \E c \in Collections : \E r \in store[c] : r.meta.doc_hash.v = gate.doc_hash

\* C10: every metadata value of every stored record is a str, int, float, bool or None
C10_ScalarMetadata ==
    \A c \in Collections :
        \A r \in store[c] :
            \A k \in DOMAIN r.meta : r.meta[k].t \in ScalarTypes

\* text, table and image records are stored, their doc_tag the str() of the dict that
\* main() passed, and an image without bounding box has None in a bbox field
C10_Witness ==
    /\ \A c \in Collections :
          \E r \in store[c] : \E d \in Docs : r.meta.doc_tag = PyStr(MainDocTag(d).v)
    /\ \E r \in store["pdf_images"] : r.meta.bbox_x0 = PyNone
    /\ \E r \in store["pdf_images"] : r.meta.bbox_x0.t = "float"

\* C11: in one indexing batch, two different artifacts of a kind never get the same
\* vector id
C11_DistinctIdsInBatch ==
    \A p \in Procs :
        \A kind \in DOMAIN NoIds :
            \A i, j \in DOMAIN ids[p][kind] :
                i # j => ids[p][kind][i] # ids[p][kind][j]

\* process p steps from pcv to another position
Steps(p, pcv) == pc[p] = pcv /\ pc'[p] # pcv

\* C13: with --force the run goes from the gate to extraction whatever the gate
\* answers and whatever the store holds, and no indexer step of a forced run removes
\* an id from a collection
C13_ForceBypassesGate ==
    [][/\ \A is_indexed \in BOOLEAN : AfterGate(is_indexed, TRUE) = "extract"
       /\ \A p \in Procs :
             /\ (force[p] /\ Steps(p, "gate")) => pc'[p] = "extract"
             /\ (force[p] /\ pc[p] \in IndexPcs /\ pc'[p] # pc[p]) =>
                   \A c \in Collections : IdsIn(store[c]) \subseteq IdsIn(store'[c])]_vars

\* a forced run on a document that an earlier run left in all three collections has
\* passed the gate and has upserted its text again
C13_Witness ==
    \E p \in Procs :
        /\ force[p] /\ pc[p] = "index_tables"
        /\ snap[doc[p]] # NoSnap /\ snap[doc[p]].ok
        /\ \A c \in Collections : snap[doc[p]].recs[c] # {}
        /\ \A c \in Collections : IdsIn(snap[doc[p]].recs[c]) \subseteq IdsIn(store[c])
        /\ ids[p].text # <<>>

\* a required input of the run is missing: no API key, no path, or no file at the path
InputMissing(a) == ~a.api_key \/ a.pdf = "" \/ ~PathExists(a.pdf)

----------------------------------------------------------------------------
(* Properties of concurrent ingestion *)

\* the batch process p hands to add_texts at its next indexer step
NextBatch(p) ==
    LET d == doc[p]
        dh == AllHash(d, PyNone)
        tag == AllTag(d, DocTagArg(p))
    IN  IF pc[p] = "index_text" THEN index_text_docs(result[p].text, d, dh, tag)
        ELSE IF pc[p] = "index_tables" THEN index_table_artifacts(result[p].tables, d, dh, tag)
        ELSE IF pc[p] = "index_images" THEN index_image_artifacts(result[p].images, d, dh, tag)
        ELSE NoBatch

\* the collection that step writes
NextColl(p) ==
    IF pc[p] = "index_text" THEN "pdf_text"
    ELSE IF pc[p] = "index_tables" THEN "pdf_tables" ELSE "pdf_images"

\* the kind of ids[p] kept for a collection
KindOf(c) == IF c = "pdf_text" THEN "text" ELSE IF c = "pdf_tables" THEN "tables" ELSE "images"

\* both processes run the command on the same document, one run each
SameDocTwice == doc[1] = doc[2] /\ pc[1] # "idle" /\ pc[2] # "idle" /\ runs[doc[1]] = 2

\* C14: when two processes ingest the same bytes, a write to an id the store already
\* holds carries the text and metadata the store holds for it, and when both are done
\* every collection has the ids of one ingestion
C14_ConcurrentSameDoc ==
    SameDocTwice =>
        /\ \A p \in Procs :
              pc[p] \in IndexPcs =>
                  \A i \in DOMAIN NextBatch(p).ids :
                      \A r \in store[NextColl(p)] :
                          r.id = NextBatch(p).ids[i] =>
                              /\ r.text = NextBatch(p).texts[i]
                              /\ r.meta = NextBatch(p).metas[i]
        /\ (pc[1] = "done" /\ pc[2] = "done") =>
              \A c \in Collections :
                  IdsIn(RecsOf(store, DocHash(doc[1]))[c]) = Range(ids[1][KindOf(c)])

\* what one run of the command on document d leaves in an empty store
Alone(d, u, captioned) ==
    LET res == ingest_pdf_multimodal(d, u, captioned)
        dh == AllHash(d, PyNone)
        tag == AllTag(d, MainDocTag(d))
        text == add_texts({}, index_text_docs(res.text, d, dh, tag))
        tables == add_texts({}, index_table_artifacts(res.tables, d, dh, tag))
        images == add_texts({}, index_image_artifacts(res.images, d, dh, tag))
    IN  [pdf_text |-> text.recs,
         pdf_tables |-> IF text.raised THEN {} ELSE tables.recs,
         pdf_images |-> IF text.raised \/ tables.raised THEN {} ELSE images.recs]

\* the two processes run the command on different documents, one run each
TwoDocs == doc[1] # doc[2] /\ pc[1] # "idle" /\ pc[2] # "idle" /\ runs[doc[1]] = 1 /\ runs[doc[2]] = 1

\* both runs have ended
BothEnded == \A p \in Procs : pc[p] \in {"done", "crashed"}

\* C15: when two processes ingest documents of different hashes, their id lists are
\* disjoint, no indexer step changes a record of the other document, and at the end
\* the store is the union of what each run alone leaves
C15_ConcurrentOtherDocs ==
    [][/\ \A p \in Procs :
             (pc[p] \in IndexPcs /\ pc'[p] # pc[p]) =>
                 \A d \in Docs \ {doc[p]} :
                     RecsOf(store', DocHash(d)) = RecsOf(store, DocHash(d))
       /\ TwoDocs' =>
             /\ \A kind \in DOMAIN NoIds : Range(ids'[1][kind]) \cap Range(ids'[2][kind]) = {}
             /\ \A c \in Collections :
                   IdsIn(RecsOf(store', DocHash(doc'[1]))[c])
                       \cap IdsIn(RecsOf(store', DocHash(doc'[2]))[c]) = {}
             /\ BothEnded' =>
                   \E u1, u2 \in Uuids, c1, c2 \in BOOLEAN :
                       \A c \in Collections :
                           store'[c] = Alone(doc'[1], u1, c1)[c] \cup Alone(doc'[2], u2, c2)[c]]_vars

\* both processes have upserted the text of their document and neither has reached
\* its tables yet
C15_Witness ==
    /\ TwoDocs
    /\ pc[1] = "index_tables" /\ pc[2] = "index_tables"
    /\ \A p \in Procs : Range(ids[p].text) \subseteq IdsIn(store["pdf_text"])
    /\ \A p \in Procs : ids[p].text # <<>>

----------------------------------------------------------------------------
(* Properties of ingestion with faults *)

\* the vector id the image indexer gives a readable image of document d
ImageIdOf(d, img) == ImageId(AllHash(d, PyNone).v, img.page, ImageSig(img))

\* C19: when the image indexer of index_all_modalities meets an image whose file
\* cannot be read, the call still ends normally and every readable image of the
\* batch is written
C19_MalformedArtifactIsSkipped ==
    [][\A p \in Procs :
          (IndexImages(p) /\ Unreadable(result[p].images)) =>
              /\ pc'[p] = "done"
              /\ \A i \in DOMAIN result[p].images :
                    result[p].images[i].png # NoFile =>
                        ImageIdOf(doc[p], result[p].images[i]) \in IdsIn(store'["pdf_images"])]_vars

\* the first run on document d ended, interrupted or failed, with its text written
\* and neither tables nor images
LeftTextOnly(d) ==
    /\ snap[d] # NoSnap
    /\ ~snap[d].ok
    /\ snap[d].recs["pdf_text"] # {}
    /\ snap[d].recs["pdf_tables"] = {}
    /\ snap[d].recs["pdf_images"] = {}

\* C20: after a run that left only the text of a document, a later run on the same
\* bytes without --force is skipped as already indexed, and the document stays
\* without table and image records
C20_InterruptedStaysSkipped ==
    \A p \in Procs :
        (/\ entry[p] = "run_pipeline"
         /\ ~force[p]
         /\ runs[doc[p]] >= 2
         /\ pc[p] \notin {"idle", "gate"}
         /\ LeftTextOnly(doc[p]))
        => /\ pc[p] = "skipped"
           /\ already[p]
           /\ RecsOf(store, DocHash(doc[p]))["pdf_tables"] = {}
           /\ RecsOf(store, DocHash(doc[p]))["pdf_images"] = {}

----------------------------------------------------------------------------
(* Properties of the indexers *)

BBoxKeys == {"bbox_x0", "bbox_y0", "bbox_x1", "bbox_y1"}

\* an indexer call is in flight and has written its batch
Indexed(op) == gate # NoCall /\ gate.op = op /\ ~gate.raised

\* the record the call in flight wrote for its i-th artifact
Written(coll, i) == CHOOSE r \in store[coll] : r.id = gate.ids[i]

\* C17: every table and image record has the four bbox keys, all None when its
\* artifact has no bounding box and all floats when it has one
C17_BBoxFieldsAllOrNone ==
    /\ \A c \in {"pdf_tables", "pdf_images"} :
          \A r \in store[c] :
              /\ BBoxKeys \subseteq DOMAIN r.meta
              /\ \/ \A k \in BBoxKeys : r.meta[k] = PyNone
                 \/ \A k \in BBoxKeys : r.meta[k].t = "float"
    /\ \A op \in {"index_table_artifacts", "index_image_artifacts"} :
          Indexed(op) =>
              LET coll == IF op = "index_table_artifacts" THEN "pdf_tables" ELSE "pdf_images"
              IN  \A i \in DOMAIN gate.artifacts :
                      /\ \E r \in store[coll] : r.id = gate.ids[i]
                      /\ gate.artifacts[i].bbox = NoBBox <=>
                            \A k \in BBoxKeys : Written(coll, i).meta[k] = PyNone

\* tables indexed in one call, one with a bounding box and one without
C17_Witness ==
    /\ Indexed("index_table_artifacts")
    /\ \E i, j \in DOMAIN gate.artifacts :
          /\ gate.artifacts[i].bbox = NoBBox
          /\ gate.artifacts[j].bbox # NoBBox
          /\ Written("pdf_tables", i).meta.bbox_x0 = PyNone
          /\ Written("pdf_tables", j).meta.bbox_x0.t = "float"

Blank(text) == Strip(text) = <<>>

Fallback(page) == <<"T", "a", "b", "l", "e", " ", "o", "n", " ", "p", "a", "g", "e", " ">> \o Digits(page)

\* C18 as stated: the indexed text of a table is its preview text when that is not
\* blank and "Table on page <N>" when it is; it is never empty
C18_PreviewOrFallback ==
    Indexed("index_table_artifacts") =>
        \A i \in DOMAIN gate.artifacts :
            LET t == gate.artifacts[i]
                text == Written("pdf_tables", i).text
            IN  /\ text # <<>>
                /\ ~Blank(t.preview_text) => text = t.preview_text
                /\ Blank(t.preview_text) <=> text = Fallback(t.page)

\* C18 amended: the indexed text of a table is its preview text with leading and
\* trailing whitespace removed when that is not blank and "Table on page <N>" when
\* it is; it is never empty
C18_StrippedPreviewOrFallback ==
    Indexed("index_table_artifacts") =>
        \A i \in DOMAIN gate.artifacts :
            LET t == gate.artifacts[i]
                text == Written("pdf_tables", i).text
            IN  /\ text # <<>>
                /\ ~Blank(t.preview_text) => text = Strip(t.preview_text)
                /\ Blank(t.preview_text) <=> text = Fallback(t.page)

\* a table whose preview is blank was indexed with the fallback of its page beside a
\* table whose preview lost the whitespace around it
C18_Witness ==
    /\ Indexed("index_table_artifacts")
    /\ \E i, j \in DOMAIN gate.artifacts :
          /\ gate.artifacts[i].preview_text = <<" ">>
          /\ Written("pdf_tables", i).text = Fallback(gate.artifacts[i].page)
          /\ gate.artifacts[j].preview_text = <<"T", ".", " ">>
          /\ Written("pdf_tables", j).text = <<"T", ".">>

----------------------------------------------------------------------------
(* Properties of retrieval *)

Retrieved == query # NoCall /\ query.op = "retrieve_context"
Formatted == query # NoCall /\ query.op = "format_context"

CountIn(seq, x) == Cardinality({i \in DOMAIN seq : seq[i] = x})

Min(a, b) == IF a < b THEN a ELSE b

Ascending(hits) == \A i, j \in DOMAIN hits : i < j => hits[i].score <= hits[j].score

\* the entries the searches found that the result leaves out
LeftOut(found, hits) == {x \in Range(found) : CountIn(found, x) > CountIn(hits, x)}

\* no returned hit has a larger score than an entry left out
LowestScores(found, hits) ==
    \A x \in LeftOut(found, hits) : \A i \in DOMAIN hits : hits[i].score <= x.score

\* x is a search result of the collection it is tagged with
OwnHit(per, x) ==
    \E i \in DOMAIN COLLECTIONS :
        /\ x.collection = COLLECTIONS[i]
        /\ \E j \in DOMAIN per[i] : per[i][j].doc = x.doc /\ per[i][j].score = x.score

\* C6: the hits retrieve_context returns ascend in score, and none has a larger score
\* than a hit some per-collection search found and the result leaves out
C6_SortedAndLowest ==
    (Retrieved /\ ~query.raised) =>
        /\ Ascending(query.hits)
        /\ LowestScores(query.found, query.hits)

\* hits of two collections came out of the fan-out in descending order somewhere, some
\* are returned and some are left out
C6_Witness ==
    /\ Retrieved
    /\ \E i, j \in DOMAIN query.found : i < j /\ query.found[i].score > query.found[j].score
    /\ Len(query.hits) >= 2
    /\ \E i, j \in DOMAIN query.hits : query.hits[i].collection # query.hits[j].collection
    /\ LeftOut(query.found, query.hits) # {}

\* exactly one collection returned no hit and both others returned some
OneEmpty(per) ==
    /\ Len(per) = Len(COLLECTIONS)
    /\ Cardinality({i \in DOMAIN per : per[i] = <<>>}) = 1

\* C7 as stated: with one collection empty, the result holds every hit of the other
\* two, sorted, and nothing attributed to the empty one
C7_ExactlyUnion ==
    (Retrieved /\ ~query.raised /\ OneEmpty(query.per)) =>
        /\ Len(query.hits) = Len(query.found)
        /\ \A x \in Range(query.found) : CountIn(query.hits, x) = CountIn(query.found, x)
        /\ Ascending(query.hits)
        /\ \A i \in DOMAIN query.per :
              query.per[i] = <<>> =>
                  \A j \in DOMAIN query.hits : query.hits[j].collection # COLLECTIONS[i]

\* C7 amended: with one collection empty, the result holds the min(top_n, total)
\* lowest-scored hits of the other two, each tagged with its own collection, sorted,
\* and nothing attributed to the empty one
C7_LowestOfUnion ==
    (Retrieved /\ ~query.raised /\ OneEmpty(query.per)) =>
        /\ Len(query.hits) = Min(query.top_n, Len(query.per[1]) + Len(query.per[2]) + Len(query.per[3]))
        /\ \A x \in Range(query.hits) :
              OwnHit(query.per, x) /\ CountIn(query.hits, x) <= CountIn(query.found, x)
        /\ LowestScores(query.found, query.hits)
        /\ Ascending(query.hits)
        /\ \A i \in DOMAIN query.per :
              query.per[i] = <<>> =>
                  \A j \in DOMAIN query.hits : query.hits[j].collection # COLLECTIONS[i]

\* one collection is empty, the other two gave more hits than top_n, and the result
\* has hits of both
C7_Witness ==
    /\ Retrieved
    /\ ~query.raised
    /\ OneEmpty(query.per)
    /\ Len(query.found) > query.top_n
    /\ \E i, j \in DOMAIN query.hits : query.hits[i].collection # query.hits[j].collection

\* number of entries of ctx tagged c
FoundIn(found, c) == Cardinality({i \in DOMAIN found : found[i].collection = c})

\* C8: a retrieve_context call in which a collection did not exist, or in which the
\* search of a collection fails with a not-found error, does not raise, has no hit of
\* that collection, and has the k nearest records of every other collection merged
\* and cut to top_n
C8_MissingIsEmpty ==
    Retrieved =>
        /\ ~query.raised
        /\ \A c \in query.missing \cup query.fails : FoundIn(query.found, c) = 0
        /\ \A c \in Collections \ query.fails :
              FoundIn(query.found, c) = Min(query.k, Cardinality(store[c]))
        /\ Len(query.hits) = Min(query.top_n, Len(query.found))

\* C8, the half that holds: when every search answers, a collection that did not
\* exist is created empty and the call returns the hits of the others
C8_AbsentIsCreatedEmpty ==
    (Retrieved /\ query.fails = {}) =>
        /\ ~query.raised
        /\ \A c \in query.missing : FoundIn(query.found, c) = 0
        /\ \A c \in Collections :
              FoundIn(query.found, c) = Min(query.k, Cardinality(store[c]))
        /\ Len(query.hits) = Min(query.top_n, Len(query.found))

\* C9 as stated: for any max_chars_per_chunk the text of a block is at most
\* max_chars_per_chunk + len(marker) long
C9_BoundAnyMax ==
    Formatted =>
        \A i \in DOMAIN query.blocks :
            Len(query.blocks[i].text) <= query.max_chars_per_chunk + Len(Marker)

\* C9 amended: the bound holds for every max_chars_per_chunk >= 1
C9_BoundPositiveMax ==
    (Formatted /\ query.max_chars_per_chunk >= 1) =>
        \A i \in DOMAIN query.blocks :
            Len(query.blocks[i].text) <= query.max_chars_per_chunk + Len(Marker)

\* a text longer than a positive max_chars_per_chunk was cut and is exactly
\* max_chars_per_chunk + len(marker) long, beside a text short enough to be kept
C9_Witness ==
    /\ Formatted
    /\ query.max_chars_per_chunk >= 1
    /\ \E i \in DOMAIN query.blocks :
          /\ Len(Strip(query.snips[i].doc.page_content)) > query.max_chars_per_chunk
          /\ Len(query.blocks[i].text) = query.max_chars_per_chunk + Len(Marker)
    /\ \E i \in DOMAIN query.blocks :
          query.blocks[i].text = Strip(query.snips[i].doc.page_content)

\* C12: when the answering capability fails in answer(), the call does not raise, the
\* answer it returns is null, and the hits retrieved for the query and their
\* formatted context are returned with it
C12_FailureIsAResult ==
    (query # NoCall /\ query.op = "answer" /\ query.llm_failed) =>
        /\ ~query.raised
        /\ query.answer_text = PyNone
        /\ query.hits = query.retrieved
        /\ Len(query.context) = Len(query.retrieved)

----------------------------------------------------------------------------
(* Properties of the vector ids *)

ChunkPage(c) == c.metadata.page + 1

\* the number of chunks before the i-th that are of the same page
WithinPage(chunks, i) ==
    Cardinality({j \in 1..(i - 1) : ChunkPage(chunks[j]) = ChunkPage(chunks[i])})

\* C21: the chunk index in a text id is the index of the chunk within its own page,
\* starting at 0 on each page
C21_ChunkIndexWithinPage ==
    \A p \in Procs :
        \A i \in DOMAIN ids[p].text :
            LET chunks == _split_text_docs(load_pdf_text(doc[p]))
            IN  ids[p].text[i] =
                    TextId(DocHash(doc[p]), ChunkPage(chunks[i]), WithinPage(chunks, i))

\* C22: the trailing index of a table id is the index of the table among the tables
\* of its own page
C22_TableIndexWithinPage ==
    \A p \in Procs :
        \A i \in DOMAIN ids[p].tables :
            LET t == Files[doc[p]].tables[i]
            IN  ids[p].tables[i] =
                    TableId(DocHash(doc[p]), t.page, _bbox_sig(t.bbox), TableIdx(doc[p], i))

\* the orders in which n artifacts can be handed over
Perms(n) == {f \in [1..n -> 1..n] : \A i, j \in 1..n : f[i] = f[j] => i = j}

\* C23: the id of an image is built from the hash of the document, the page and the
\* hash of the bytes of the image file, so indexing the same images in any other
\* order gives each image the same id and the call the same set of ids
C23_ImageIdIgnoresPosition ==
    Indexed("index_image_artifacts") =>
        LET images == gate.artifacts
        IN  /\ \A i \in DOMAIN images :
                  gate.ids[i] = ImageId(DocHash("a"), images[i].page, sha1_file(images[i].png))
            /\ \A f \in Perms(Len(images)) :
                  LET permuted == [i \in DOMAIN images |-> images[f[i]]]
                      batch == index_image_artifacts(permuted, "a", PyNone, PyNone)
                  IN  /\ \A i \in DOMAIN images : batch.ids[i] = gate.ids[f[i]]
                      /\ Range(batch.ids) = Range(gate.ids)

\* two images of one page with different bytes were indexed in one call
C23_Witness ==
    /\ Indexed("index_image_artifacts")
    /\ Len(gate.artifacts) = 2
    /\ gate.artifacts[1].page = gate.artifacts[2].page
    /\ gate.artifacts[1].png # gate.artifacts[2].png
    /\ gate.ids[1] # gate.ids[2]
    /\ {gate.ids[1], gate.ids[2]} \subseteq IdsIn(store["pdf_images"])

----------------------------------------------------------------------------
(* Properties of the merge, the context and the answer *)

\* the place of the collection of hit x in the configured sequence
CollectionIndex(x) == CHOOSE i \in DOMAIN COLLECTIONS : COLLECTIONS[i] = x.collection

\* x comes before y in the search result of their collection
BeforeInSearch(per, x, y) ==
    \E a, b \in DOMAIN per[CollectionIndex(x)] :
        /\ a < b
        /\ per[CollectionIndex(x)][a].doc = x.doc
        /\ per[CollectionIndex(x)][b].doc = y.doc

\* C24: hits of equal score keep their order from before the sort: the hit of the
\* collection that comes first in the configured sequence is first, and two hits of one
\* collection keep the order of that collection's search result
C24_TiesKeepOrder ==
    (Retrieved /\ ~query.raised) =>
        \A i, j \in DOMAIN query.hits :
            (i < j /\ query.hits[i].score = query.hits[j].score) =>
                /\ CollectionIndex(query.hits[i]) <= CollectionIndex(query.hits[j])
                /\ CollectionIndex(query.hits[i]) = CollectionIndex(query.hits[j]) =>
                      BeforeInSearch(query.per, query.hits[i], query.hits[j])

\* the sort moved hits, and the result has two hits of equal score from different
\* collections and two from the same collection
C24_Witness ==
    /\ Retrieved
    /\ ~query.raised
    /\ \E a, b \in DOMAIN query.found : a < b /\ query.found[a].score > query.found[b].score
    /\ \E i, j \in DOMAIN query.hits :
          /\ i < j
          /\ query.hits[i].score = query.hits[j].score
          /\ query.hits[i].collection # query.hits[j].collection
    /\ \E i, j \in DOMAIN query.hits :
          /\ i < j
          /\ query.hits[i].score = query.hits[j].score
          /\ query.hits[i].collection = query.hits[j].collection
          /\ query.hits[i].doc # query.hits[j].doc

RECURSIVE TotalLen(_)
\* the number of hits of all searches together
TotalLen(per) == IF per = <<>> THEN 0 ELSE Len(Head(per)) + TotalLen(Tail(per))

\* C25: for k_each >= 1 and top_n >= 0 retrieve_context returns min(top_n, H) hits, H
\* being the number of hits of all searches together, and no collection contributes
\* more than k_each hits; with a collection that has no hit the result has at most
\* 2 * k_each hits
C25_HitCount ==
    (Retrieved /\ ~query.raised /\ query.k_each >= 1 /\ query.top_n >= 0) =>
        /\ query.k = query.k_each
        /\ Len(query.found) = TotalLen(query.per)
        /\ Len(query.hits) = Min(query.top_n, TotalLen(query.per))
        /\ \A i \in DOMAIN query.per : Len(query.per[i]) <= query.k_each
        /\ \A c \in Collections : FoundIn(query.hits, c) <= query.k_each
        /\ (\E i \in DOMAIN query.per : query.per[i] = <<>>) =>
              Len(query.hits) <= 2 * query.k_each

\* a collection with more records than k_each gave k_each hits, another collection
\* gave none, and the searches found more hits than top_n
C25_Witness ==
    /\ Retrieved
    /\ ~query.raised
    /\ query.k_each >= 1
    /\ \E i \in DOMAIN COLLECTIONS :
          /\ Cardinality(store[COLLECTIONS[i]]) > query.k_each
          /\ Len(query.per[i]) = query.k_each
    /\ \E i \in DOMAIN query.per : query.per[i] = <<>>
    /\ query.top_n >= 1
    /\ query.top_n < TotalLen(query.per)
    /\ Len(query.hits) = query.top_n

\* the block of hit x as the specification writes it
Rendered(x, max_chars_per_chunk) ==
    LET m == x.doc.metadata
        src == IF Truthy(m.file_name) THEN m.file_name.v ELSE m.pdf_path.v
    IN  "[" \o x.collection \o " p" \o m.page.v \o "] "
        \o Join(Truncate(x.doc.page_content, max_chars_per_chunk))
        \o "\n(Source: " \o src \o ")"

\* C26: format_context renders one labelled block per hit, in the order of the hits,
\* each "[<collection> p<page>] <text>\n(Source: <file_name-or-path>)", and returns
\* the blocks joined by a visible separator into one context string
C26_BlocksJoinedIntoOneString ==
    Formatted =>
        LET strs == [i \in DOMAIN query.snips |->
                        Rendered(query.snips[i], query.max_chars_per_chunk)]
        IN  /\ Len(query.blocks) = Len(query.snips)
            /\ \A i \in DOMAIN query.snips : Block(query.blocks[i]) = strs[i]
            /\ query.returned.t = "str"
            /\ query.returned.v = JoinBlocks(strs)

----------------------------------------------------------------------------
(* Properties of index_all_modalities *)

CollectionOf(kind) ==
    CASE kind = "text" -> "pdf_text"
      [] kind = "tables" -> "pdf_tables"
      [] kind = "images" -> "pdf_images"

\* the step is a direct call of index_all_modalities
IndexAllStep == gate = NoCall /\ gate' # NoCall /\ gate'.op = "index_all_modalities"

\* C27: a kind whose artifact sequence is empty or absent is returned as None and
\* nothing is written for it, its collection being left as it was; the kinds that
\* have artifacts are indexed all the same and their stores are returned
C27_EmptyKindIsSkipped ==
    [][IndexAllStep =>
          \A kind \in Kinds :
              /\ gate'.result[kind] = <<>> =>
                    /\ store'[CollectionOf(kind)] = store[CollectionOf(kind)]
                    /\ exists'[CollectionOf(kind)] = exists[CollectionOf(kind)]
                    /\ gate'.ids[kind] = <<>>
                    /\ ~gate'.raised => gate'.stores[kind] = "None"
              /\ (gate'.result[kind] # <<>> /\ ~gate'.raised) =>
                    /\ gate'.stores[kind] = "Chroma"
                    /\ gate'.ids[kind] # <<>>
                    /\ Range(gate'.ids[kind]) \subseteq IdsIn(store'[CollectionOf(kind)])]_vars

\* a call with text and images but no tables returned None for the tables only, wrote
\* text and images, and left the table records of an earlier call in place
C27_Witness ==
    /\ gate # NoCall
    /\ gate.op = "index_all_modalities"
    /\ ~gate.raised
    /\ gate.result.tables = <<>>
    /\ gate.stores = [text |-> "Chroma", tables |-> "None", images |-> "Chroma"]
    /\ store["pdf_tables"] # {}
    /\ Range(gate.ids.text) \subseteq IdsIn(store["pdf_text"])
    /\ Range(gate.ids.images) \subseteq IdsIn(store["pdf_images"])
    /\ gate.ids.text # <<>> /\ gate.ids.images # <<>>

----------------------------------------------------------------------------
(* Properties of answer() and of the store over all operations *)

Answering == query # NoCall /\ query.op = "answer"

\* C28: answer() calls the answering capability at most once, with no second attempt
\* after a failure, and only when every collection has been searched and the context
\* formatted; the hits and the context it returns are those of the retrieval it made
\* for the query
C28_OneCallAfterRetrieval ==
    Answering =>
        /\ CountIn(query.steps, "invoke") <= 1
        /\ \A i \in DOMAIN query.steps :
              query.steps[i] = "invoke" =>
                  /\ \A c \in Collections : \E j \in 1..(i - 1) : query.steps[j] = "search " \o c
                  /\ \E j \in 1..(i - 1) : query.steps[j] = "format_context"
                  /\ i = Len(query.steps)
        /\ ~query.raised =>
              LET found == retrieve_context(query.q, 0, query.top_n, {})
                  blocks == format_context(found.hits, query.max_chars_per_chunk)
              IN  /\ query.hits = found.hits
                  /\ query.context = blocks
                  /\ query.returned_context = format_context_return(query.impl, blocks)

\* the capability failed in an answer() over a filled store: it was called once, and
\* the call returned the hits it had retrieved
C28_Witness ==
    /\ Answering
    /\ query.llm_failed
    /\ ~query.raised
    /\ CountIn(query.steps, "invoke") = 1
    /\ Len(query.hits) >= 2
    /\ query.hits = query.retrieved

\* the step is a gate check or belongs to a retrieve_context, format_context or
\* answer call
ReadStep ==
    \/ gate' # gate
    \/ query' # query
    \/ \E p \in Procs : pc[p] = "gate" /\ pc'[p] # "gate"

\* C29: no step of an ingestion, a gate check or a query removes an id from a
\* collection, and gate checks and queries leave the records of every collection as
\* they were
C29_IdSetsNeverShrink ==
    [][/\ \A c \in Collections : IdsIn(store[c]) \subseteq IdsIn(store'[c])
       /\ ReadStep => store' = store]_vars

\* an answer() call is in flight over a store that holds the text of both documents,
\* tables and images, and the next run has passed its gate check
C29_Witness ==
    /\ Answering
    /\ \A d \in Docs : \E r \in store["pdf_text"] : r.meta.doc_hash = PyStr(DocHash(d))
    /\ store["pdf_tables"] # {}
    /\ store["pdf_images"] # {}
    /\ \A d \in Docs : runs[d] >= 1

Provenance == {"doc_hash", "doc_tag", "file_name", "pdf_path", "page", "type"}

\* the pages and image files of the documents, and the list positions
Pages == UNION {DOMAIN Files[d].pages : d \in Docs}
Pngs ==
    UNION {Range(Files[d].renders) \cup UNION {Range(Files[d].embedded[pg]) : pg \in DOMAIN Files[d].pages} :
              d \in Docs}
Positions == 0..3

\* what may follow "<doc_hash>:<kind>:p<page>:" in the id of record r
Discriminators(r) ==
    CASE r.meta.type.v = "text" -> {"c" \o Pad(i, 4) : i \in Positions}
      [] r.meta.type.v = "table" -> {r.meta.bbox_sig.v \o ":" \o Pad(i, 2) : i \in Positions}
      [] r.meta.type.v = "image" -> {sha1_file(png) : png \in Pngs}
      [] OTHER -> {}

\* the id of r is its doc_hash, the kind its type names, a page and a discriminator
IdFromProvenance(r) ==
    \E pg \in Pages, x \in Discriminators(r) :
        r.id = r.meta.doc_hash.v \o ":" \o r.meta.type.v \o ":p" \o Pad(pg, 4) \o ":" \o x

\* the records in the store that carry an id of the index_all_modalities call of p
WrittenBy(p) ==
    UNION {{r \in store[CollectionOf(kind)] : r.id \in Range(ids[p][kind])} : kind \in Kinds}

\* C30: every record has the fields doc_hash, doc_tag, file_name, pdf_path, page and
\* type, its id starts with its doc_hash and names the kind its type names, and the
\* records of one index_all_modalities call all carry the same doc_hash
C30_Provenance ==
    /\ \A c \in Collections :
          \A r \in store[c] :
              /\ Provenance \subseteq DOMAIN r.meta
              /\ \A k \in Provenance : r.meta[k] # PyNone
              /\ r.meta.doc_hash.t = "str"
              /\ r.meta.type.t = "str"
              /\ IdFromProvenance(r)
    /\ \A p \in Procs :
          \A r \in WrittenBy(p) : r.meta.doc_hash = PyStr(DocHash(doc[p]))

\* a run of the script has written text, tables and images of its document into a
\* store that holds records of the other document
C30_Witness ==
    \E p \in Procs :
        /\ pc[p] = "done"
        /\ entry[p] = "run_pipeline"
        /\ \A kind \in Kinds :
              /\ ids[p][kind] # <<>>
              /\ Range(ids[p][kind]) \subseteq IdsIn(store[CollectionOf(kind)])
        /\ \E r \in store["pdf_text"] : r.meta.doc_hash # PyStr(DocHash(doc[p]))

============================================================================
